---- MODULE Spec2Model ----
(***************************************************************************)
(* A model of python_skos/skos.py: the SKOS object model with its          *)
(* bidirectional relation collections, the URI keyed collection of         *)
(* concepts, the RDF loader with its resolver, and the RDF builder.        *)
(*                                                                         *)
(* The module holds several specifications over one set of variables:      *)
(*   SpecRel    the relation accessors of a set of concepts                *)
(*   SpecColl   one `Concepts` collection                                  *)
(*   SpecLoad   RDFLoader.load on an input graph, with its resolver        *)
(*   SpecBuild  RDFBuilder.build on an object model                        *)
(* Each specification leaves the variables of the others at their initial  *)
(* values.                                                                 *)
(***************************************************************************)
EXTENDS Integers, Sequences, FiniteSets, TLC

VARIABLES
    \* ---- the object model (Concept and Collection relationships) ----
    broader,      \* Concept.broader: uri -> keys of the collection
    narrower,     \* Concept.narrower (backref of broader)
    left,         \* Concept._related_left / _synonyms_left, by relation name
    right,        \* Concept._related_right / _synonyms_right (backrefs)
    members,      \* Collection.members
    collections,  \* Concept.collections (backref of members)
    \* ---- the last operation made through a relation accessor ----
    relOp,
    inserted,     \* the keys of broader, narrower, members and collections of
                  \* each object in the insertion order of their dicts
    \* ---- one Concepts collection ----
    concepts,     \* Concepts._concepts: the dict, as its items in insertion order
    collOp,       \* the last operation on the collection and its outcome
    collPrev,     \* the operation before it
    \* ---- RDFLoader: one load ----
    graph,        \* the rdflib graph handed to the loader (parse adds to it)
    graph0,       \* the graph as it was handed in
    max_depth,    \* RDFLoader.max_depth
    lpc,          \* where the load stands
    rstack,       \* the active calls of _resolveGraph, innermost last
    resolved,     \* the `resolved` set shared by the calls
    fetched,      \* the graph.parse(uri) calls made, in order, with their depth
    everUnresolved, \* every uri some call collected as unresolved
    rsteps,       \* the steps the calls of _resolveGraph have taken
    err,          \* the exception the load raised
    loader,       \* the attributes load sets on the loader
    \* ---- RDFBuilder: one build ----
    bpc,          \* where the build stands
    roots,        \* the objects of build(objects, graph) still to be built
    roots0,       \* the objects as handed in
    bgraph,       \* the destination graph
    pre,          \* the destination graph as handed in
    bstack,       \* the active calls of buildConcept/buildCollection
    emitted,      \* how often each object's triples were emitted
    lastBuild,    \* the last step of the build
    \* ---- the scalar attributes of the objects, and one round trip ----
    scalars,      \* the scalar attributes each object was constructed with
    trip,         \* what RDFLoader made of the graph a build returned
    \* ---- one Concept made by _loadConcepts ----
    lang_arg,     \* the lang argument of RDFLoader
    concept       \* the attributes the Concept was constructed with

objVars == <<broader, narrower, left, right, members, collections>>
collVars == <<concepts, collOp, collPrev>>
loadVars == <<graph, graph0, max_depth, lpc, rstack, resolved, fetched,
              everUnresolved, rsteps, err, loader>>
vars == <<broader, narrower, left, right, members, collections, relOp,
          inserted,
          concepts, collOp, collPrev,
          graph, graph0, max_depth, lpc, rstack, resolved, fetched,
          everUnresolved, rsteps, err, loader,
          bpc, roots, roots0, bgraph, pre, bstack, emitted, lastBuild,
          scalars, trip, lang_arg, concept>>
buildVars == <<bpc, roots, roots0, bgraph, pre, bstack, emitted, lastBuild>>

\* What each specification leaves alone.
tripVars == <<scalars, trip>>
langVars == <<lang_arg, concept>>
notRel == <<collVars, loadVars, buildVars, tripVars, langVars>>
notColl == <<objVars, relOp, inserted, loadVars, buildVars, tripVars, langVars>>
notLoad == <<relOp, inserted, collVars, buildVars, tripVars, langVars>>
notBuild == <<relOp, inserted, collVars, loadVars, tripVars, langVars>>

(***************************************************************************)
(* Bounds and universes                                                    *)
(***************************************************************************)

\* The Concept objects of the object model, named by their URI.
ConceptURIs == {"A", "U"}
\* The Collection objects of the object model, named by their URI.
CollectionURIs == {"K"}
AllURIs == ConceptURIs \cup CollectionURIs

\* The two relations _create_attribute_mapping is instantiated for.
JoinNames == {"synonyms", "related"}

\* At most this many entries are stored when an object model is set up for a
\* build.
MaxEdges == 2

\* At most this many entries are stored at a time by the accessor operations
\* of SpecRel.
MaxStored == 2

\* The entities offered to a Concepts collection: two may share a uri and
\* differ in content.
Labels == {"x", "y"}
Entities == [uri : ConceptURIs, label : Labels]

\* Longest source handed to Concepts.update.
MaxUpdate == 2

\* Most objects handed to one build.
MaxRoots == 1

\* The URIs the graphs of a load speak of.
GraphURIs == {"A", "U"}

\* The three SKOS types the loader materializes.
Kinds == {"Concept", "Collection", "ConceptScheme"}

\* The relation predicates of the graphs of a load.
Predicates ==
    {"broader", "narrower", "related", "exactMatch", "sameAs", "member",
     "hasTopConcept"}

\* Most triples of the graph handed to the loader.
MaxTriples == 2

\* Largest finite max_depth a loader is constructed with.
MaxDepth == 1

(***************************************************************************)
(* InstrumentedConcepts under a SQLAlchemy relationship with a backref     *)
(***************************************************************************)

\* InstrumentedConcepts.add on the collection of a: the value is stored under
\* its uri (the collections of the object model are abstracted to their keys:
\* every uri names one Concept object).
InstrumentedConcepts_add(store, a, b) == [store EXCEPT ![a] = @ \cup {b}]

\* A discard that leaves the entry where it is.
InstrumentedConcepts_discard_kept(store, a, b) == store

\* InstrumentedConcepts.discard on the collection of a: no error when the key
\* is absent.
InstrumentedConcepts_discard(store, a, b) == [store EXCEPT ![a] = @ \ {b}]

\* A relationship declared without its backref: the inverse is left alone.
NoBackref(inverse, a, b) == inverse

\* The append event of a relationship with a backref: when b is appended to
\* the collection of a, a is appended to the inverse collection of b.
BackrefAppend(inverse, a, b) == [inverse EXCEPT ![b] = @ \cup {a}]

\* The remove event of a relationship with a backref: the remover fires it
\* for the value whether or not it is present.
BackrefRemove(inverse, a, b) == [inverse EXCEPT ![b] = @ \ {a}]

(***************************************************************************)
(* AttributeJoin: the view over _<name>_left and _<name>_right             *)
(***************************************************************************)

\* AttributeJoin.__contains__
AttributeJoin_contains(name, a, b) == b \in left[name][a] \/ b \in right[name][a]

\* AttributeJoin.__len__
AttributeJoin_len(name, a) == Cardinality(left[name][a] \cup right[name][a])

\* InstrumentedConcepts.update: the converter only returns an iterator over
\* the values it is given; the collection it is called on is not changed.
InstrumentedConcepts_update(store, values) == store

\* AttributeJoin.__iter__: self._left.update(self._right); iter(self._left).
\* The keys iteration yields, given the left store after the update.
AttributeJoin_iter(leftStore, rightStore) ==
    InstrumentedConcepts_update(leftStore, rightStore)

\* Number of entries the accessor operations have stored.
EdgeCount ==
    LET RECURSIVE Sum(_, _)
        Sum(f, S) == IF S = {} THEN 0
                     ELSE LET x == CHOOSE y \in S : TRUE
                          IN Cardinality(f[x]) + Sum(f, S \ {x})
    IN Sum(broader, ConceptURIs) + Sum(left["related"], ConceptURIs)
       + Sum(left["synonyms"], ConceptURIs) + Sum(members, CollectionURIs)

\* The collection of SpecColl before any operation.
NoCollOp == [op |-> "none", uri |-> "A", label |-> "x", result |-> "ok"]

InitCollIdle ==
    /\ concepts = << >>
    /\ collOp = NoCollOp
    /\ collPrev = NoCollOp

\* The attributes of a loader before load has set them.
NoLoader ==
    [concepts |-> {}, collections |-> {}, schemes |-> {},
     flat_concepts |-> {}, flat_collections |-> {}, flat_schemes |-> {},
     cache |-> << >>, flat_cache |-> << >>]

\* No loader is constructed.
InitLoadIdle ==
    /\ graph = {}
    /\ graph0 = {}
    /\ max_depth = [finite |-> TRUE, value |-> 0]
    /\ lpc = "idle"
    /\ rstack = << >>
    /\ resolved = {}
    /\ fetched = << >>
    /\ everUnresolved = {}
    /\ rsteps = 0
    /\ err = "none"
    /\ loader = NoLoader

\* The objects a build is made of: the Concepts and Collections of the
\* object model.
Objects ==
    [kind : {"Concept"}, uri : ConceptURIs]
        \cup [kind : {"Collection"}, uri : CollectionURIs]

\* The ConceptScheme objects, and every object that can be handed to build.
SchemeURIs == {"S"}

BuildObjects == Objects \cup [kind : {"ConceptScheme"}, uri : SchemeURIs]

NoStep == [step |-> "none", obj |-> [kind |-> "Concept", uri |-> "A"]]

\* Python values of the scalar attributes: None, a str, and a datetime that
\* is naive or aware (UTC). Two values are == in Python exactly when they are
\* equal here: a naive and an aware datetime are never equal.
PyNone == [t |-> "None", v |-> "", tz |-> ""]
Str(x) == [t |-> "str", v |-> x, tz |-> ""]
Datetime(day, zone) == [t |-> "datetime", v |-> day, tz |-> zone]

\* Concept(uri, prefLabel, definition, notation, altLabel, note) with every
\* attribute given.
ConceptScalars ==
    {[prefLabel |-> Str(l), definition |-> Str("d"), notation |-> Str("n"),
      altLabel |-> Str("a"), note |-> Str("o")] : l \in Labels}

\* Collection(uri, title, description, date): the title may be the empty
\* string, the date may be left out (None).
CollectionScalars ==
    {[title |-> Str(t), description |-> Str("s"), date |-> d] :
        t \in {"t", ""},
        d \in {PyNone, Datetime("d1", "naive"), Datetime("d1", "UTC")}}

\* The attributes the objects can have been constructed with.
ScalarChoices ==
    {f \in [Objects -> ConceptScalars \cup CollectionScalars] :
        \A o \in Objects :
            f[o] \in (IF o.kind = "Concept" THEN ConceptScalars
                      ELSE CollectionScalars)}

\* ConceptScheme(uri, title, description)
SchemeScalars == [title |-> Str("t"), description |-> Str("s")]

DefaultScalars ==
    [o \in Objects |->
        IF o.kind = "Concept"
        THEN [prefLabel |-> Str("x"), definition |-> Str("d"),
              notation |-> Str("n"), altLabel |-> Str("a"), note |-> Str("o")]
        ELSE [title |-> Str("t"), description |-> Str("s"), date |-> PyNone]]

\* No build is under way.
InitBuildIdle ==
    /\ bpc = "setup"
    /\ roots = << >>
    /\ roots0 = << >>
    /\ bgraph = {}
    /\ pre = {}
    /\ bstack = << >>
    /\ emitted = [o \in BuildObjects |-> 0]
    /\ lastBuild = NoStep

\* No graph has been loaded back.
NoTrip == [loaded |-> FALSE]

InitTripIdle ==
    /\ scalars = DefaultScalars
    /\ trip = NoTrip

\* RDFLoader(graph) with lang left at None; no Concept has been made.
NoConcept == [made |-> FALSE]

InitLangIdle ==
    /\ lang_arg = "None"
    /\ concept = NoConcept

NoOp == [op |-> "none", name |-> "none", a |-> "A", b |-> "A", yielded |-> {},
         was |-> "none", result |-> "ok", value |-> "none", values |-> {}]

\* The relationships whose accessor is the InstrumentedConcepts collection
\* itself, the relationship each is the backref of, and the objects that have
\* the accessor and that it holds.
PlainNames == {"broader", "narrower", "members", "collections"}

Inverse(attr) ==
    CASE attr = "broader" -> "narrower"
      [] attr = "narrower" -> "broader"
      [] attr = "members" -> "collections"
      [] attr = "collections" -> "members"

Owners(attr) == IF attr = "members" THEN CollectionURIs ELSE ConceptURIs

Held(attr) == IF attr = "collections" THEN CollectionURIs ELSE ConceptURIs

\* Every dict empty, as Concepts.__init__ leaves it.
EmptyOrder == [attr \in PlainNames |-> [c \in AllURIs |-> << >>]]

\* The object model with every collection empty, as the constructors leave it.
EmptyModel ==
    [broader |-> [c \in AllURIs |-> {}],
     narrower |-> [c \in AllURIs |-> {}],
     left |-> [n \in JoinNames |-> [c \in AllURIs |-> {}]],
     right |-> [n \in JoinNames |-> [c \in AllURIs |-> {}]],
     members |-> [k \in AllURIs |-> {}],
     collections |-> [c \in AllURIs |-> {}]]

\* The object model of the current state, and the next state's set to om.
Model ==
    [broader |-> broader, narrower |-> narrower, left |-> left, right |-> right,
     members |-> members, collections |-> collections]

SetModel(om) ==
    /\ broader' = om.broader
    /\ narrower' = om.narrower
    /\ left' = om.left
    /\ right' = om.right
    /\ members' = om.members
    /\ collections' = om.collections

InitObj ==
    /\ broader = EmptyModel.broader
    /\ narrower = EmptyModel.narrower
    /\ left = EmptyModel.left
    /\ right = EmptyModel.right
    /\ members = EmptyModel.members
    /\ collections = EmptyModel.collections

\* getattr(s, attr).add(o): the add of each relation accessor of the object
\* model, with the append event of its backref. AttributeJoin.add stores into
\* self._left only.
Accessor_add(om, attr, s, o) ==
    CASE attr = "broader" ->
           [om EXCEPT !.broader = InstrumentedConcepts_add(@, s, o),
                      !.narrower = BackrefAppend(@, s, o)]
      [] attr = "narrower" ->
           [om EXCEPT !.narrower = InstrumentedConcepts_add(@, s, o),
                      !.broader = BackrefAppend(@, s, o)]
      [] attr \in JoinNames ->
           [om EXCEPT !.left[attr] = InstrumentedConcepts_add(@, s, o),
                      !.right[attr] = BackrefAppend(@, s, o)]
      [] attr = "members" ->
           [om EXCEPT !.members = InstrumentedConcepts_add(@, s, o),
                      !.collections = BackrefAppend(@, s, o)]
      [] attr = "collections" ->
           [om EXCEPT !.collections = InstrumentedConcepts_add(@, s, o),
                      !.members = BackrefAppend(@, s, o)]

\* getattr(s, attr).discard(o) on one of the plain accessors, with the remove
\* event of its relationship.
Accessor_discard(om, attr, s, o) ==
    [om EXCEPT ![attr] = InstrumentedConcepts_discard(@, s, o),
               ![Inverse(attr)] = BackrefRemove(@, s, o)]

\* The object model after the step.
ModelNext ==
    [broader |-> broader', narrower |-> narrower', left |-> left',
     right |-> right', members |-> members', collections |-> collections']

\* The insertion order of the dicts behind the plain accessors once the object
\* model is om: `del self._concepts[uri]` takes the key out of the order,
\* `self._concepts[uri] = value` puts a new key last and leaves a key that is
\* there in its place. One call of add stores at most one new key into a dict.
DictOrder(ord, om) ==
    [attr \in PlainNames |->
        [c \in AllURIs |->
            LET kept == SelectSeq(ord[attr][c], LAMBDA x : x \in om[attr][c])
                new == om[attr][c] \ {kept[i] : i \in 1..Len(kept)}
            IN IF new = {} THEN kept
               ELSE Append(kept, CHOOSE x \in new : TRUE)]]

\* a.broader.add(b)
Broader_add(a, b) == SetModel(Accessor_add(Model, "broader", a, b))

\* a.narrower.add(b)
Narrower_add(a, b) == SetModel(Accessor_add(Model, "narrower", a, b))

\* a.broader.discard(b)
Broader_discard(a, b) ==
    /\ broader' = InstrumentedConcepts_discard(broader, a, b)
    /\ narrower' = BackrefRemove(narrower, a, b)
    /\ UNCHANGED <<left, right, members, collections>>

\* a.narrower.discard(b)
Narrower_discard(a, b) ==
    /\ narrower' = InstrumentedConcepts_discard(narrower, a, b)
    /\ broader' = BackrefRemove(broader, a, b)
    /\ UNCHANGED <<left, right, members, collections>>

\* AttributeJoin.add: a.<name>.add(b) stores into self._left only; the
\* relationship's backref stores a into b's right collection.
AttributeJoin_add(name, a, b) == SetModel(Accessor_add(Model, name, a, b))

\* AttributeJoin.discard: self._left.discard(value); self._right.discard(value),
\* each with the remove event of its relationship.
AttributeJoin_discard(name, a, b) ==
    LET l1 == InstrumentedConcepts_discard(left[name], a, b)
        r1 == BackrefRemove(right[name], a, b)
        r2 == InstrumentedConcepts_discard(r1, a, b)
        l2 == BackrefRemove(l1, a, b)
    IN /\ left' = [left EXCEPT ![name] = l2]
       /\ right' = [right EXCEPT ![name] = r2]
       /\ UNCHANGED <<broader, narrower, members, collections>>

\* The stores of a.<name> that hold b.
Where(name, a, b) ==
    IF b \in left[name][a]
    THEN IF b \in right[name][a] THEN "both" ELSE "left"
    ELSE IF b \in right[name][a] THEN "right" ELSE "neither"

\* `if not deleted: raise e` with the flag left out.
delitem_raises_unflagged(deleted, inRight) == ~inRight

\* AttributeJoin.__delitem__, its second try: the KeyError of
\* `del self._right[key]` is raised again only when `del self._left[key]`
\* had raised one too.
delitem_raises(deleted, inRight) == ~inRight /\ ~deleted

\* AttributeJoin.__delitem__: `del self._left[key]`, then
\* `del self._right[key]`, each Concepts.__delitem__: a KeyError when the key
\* is not there, else the instrumented discard with its remove event. The
\* stores after the first deletion, and after both.
AfterLeftDelete(name, a, b) ==
    IF b \in left[name][a]
    THEN [l |-> InstrumentedConcepts_discard(left[name], a, b),
          r |-> BackrefRemove(right[name], a, b)]
    ELSE [l |-> left[name], r |-> right[name]]

AfterBothDeletes(name, a, b) ==
    LET s1 == AfterLeftDelete(name, a, b)
    IN IF b \in s1.r[a]
       THEN [l |-> BackrefRemove(s1.l, a, b),
             r |-> InstrumentedConcepts_discard(s1.r, a, b)]
       ELSE s1

AttributeJoin_delitem_result(name, a, b) ==
    IF delitem_raises(b \in left[name][a], b \in AfterLeftDelete(name, a, b).r[a])
    THEN "KeyError" ELSE "ok"

AttributeJoin_delitem(name, a, b) ==
    /\ left' = [left EXCEPT ![name] = AfterBothDeletes(name, a, b).l]
    /\ right' = [right EXCEPT ![name] = AfterBothDeletes(name, a, b).r]
    /\ UNCHANGED <<broader, narrower, members, collections>>

\* AttributeJoin.pop: its first statement reads self._concepts, an attribute
\* AttributeJoin.__init__ never sets; the AttributeError leaves pop before
\* any store is touched.
AttributeJoin_pop(name, a) ==
    UNCHANGED <<broader, narrower, left, right, members, collections>>

\* c.members.add(a) on a Collection c
Members_add(k, a) == SetModel(Accessor_add(Model, "members", k, a))

\* c.members.discard(a)
Members_discard(k, a) == SetModel(Accessor_discard(Model, "members", k, a))

\* a.collections.add(c) and a.collections.discard(c) on a Concept a
Collections_add(a, k) == SetModel(Accessor_add(Model, "collections", a, k))

Collections_discard(a, k) == SetModel(Accessor_discard(Model, "collections", a, k))

\* Concepts.__delitem__ on a plain accessor: self.discard(self._concepts[key]).
\* The lookup raises KeyError for a key that is not there, before anything is
\* removed.
Concepts_delitem_result(attr, s, key) ==
    IF key \in Model[attr][s] THEN "ok" ELSE "KeyError"

Concepts_delitem(attr, s, key) ==
    IF key \in Model[attr][s]
    THEN SetModel(Accessor_discard(Model, attr, s, key))
    ELSE UNCHANGED objVars

\* Concepts.pop on a plain accessor: self._concepts.popitem() takes the item
\* stored last out of the dict and raises KeyError on an empty one; the
\* relationship's collection fires its remove event for the popped value.
Concepts_pop_key(attr, s) ==
    IF inserted[attr][s] = << >> THEN "none"
    ELSE inserted[attr][s][Len(inserted[attr][s])]

Concepts_pop(attr, s) ==
    IF inserted[attr][s] = << >>
    THEN UNCHANGED objVars
    ELSE SetModel(Accessor_discard(Model, attr, s, Concepts_pop_key(attr, s)))

\* Assigning to a relationship attribute, `self._<name>_left = values`: the
\* collection of a is replaced by one holding the values; the append event
\* fires for every value the old collection did not hold and the remove event
\* for every value only the old one held, each reaching the backref.
BulkReplace(store, inverse, a, values) ==
    LET adds == values \ store[a]
        removes == store[a] \ values
    IN [store |-> [store EXCEPT ![a] = values],
        inverse |-> [b \in DOMAIN inverse |->
                        IF b \in adds THEN inverse[b] \cup {a}
                        ELSE IF b \in removes THEN inverse[b] \ {a}
                        ELSE inverse[b]]]

\* Concept._setSynonyms / Concept._setRelated:
\*     self._<name>_left = values
\*     self._<name>_right = {}
\* The stores after the first assignment, and after both.
AfterSetLeft(name, a, values) == BulkReplace(left[name], right[name], a, values)

AfterSetRight(name, a, values) ==
    LET s1 == AfterSetLeft(name, a, values)
    IN BulkReplace(s1.inverse, s1.store, a, {})

setJoin(name, a, values) ==
    /\ left' = [left EXCEPT ![name] = AfterSetRight(name, a, values).inverse]
    /\ right' = [right EXCEPT ![name] = AfterSetRight(name, a, values).store]
    /\ UNCHANGED <<broader, narrower, members, collections>>

(***************************************************************************)
(* SpecRel: the calls on the relation accessors, and the two setters       *)
(***************************************************************************)

RelAddBroader(a, b) ==
    /\ EdgeCount < MaxStored
    /\ Broader_add(a, b)
    /\ inserted' = DictOrder(inserted, ModelNext)
    /\ relOp' = [NoOp EXCEPT !.op = "add", !.name = "broader", !.a = a, !.b = b]
    /\ UNCHANGED notRel

RelAddNarrower(a, b) ==
    /\ EdgeCount < MaxStored
    /\ Narrower_add(a, b)
    /\ inserted' = DictOrder(inserted, ModelNext)
    /\ relOp' = [NoOp EXCEPT !.op = "add", !.name = "narrower", !.a = a, !.b = b]
    /\ UNCHANGED notRel

RelDiscardBroader(a, b) ==
    /\ Broader_discard(a, b)
    /\ inserted' = DictOrder(inserted, ModelNext)
    /\ relOp' = [NoOp EXCEPT !.op = "discard", !.name = "broader", !.a = a, !.b = b]
    /\ UNCHANGED notRel

RelDiscardNarrower(a, b) ==
    /\ Narrower_discard(a, b)
    /\ inserted' = DictOrder(inserted, ModelNext)
    /\ relOp' = [NoOp EXCEPT !.op = "discard", !.name = "narrower", !.a = a, !.b = b]
    /\ UNCHANGED notRel

\* k.members.add(a)
RelAddMember(k, a) ==
    /\ EdgeCount < MaxStored
    /\ Members_add(k, a)
    /\ inserted' = DictOrder(inserted, ModelNext)
    /\ relOp' = [NoOp EXCEPT !.op = "add", !.name = "members", !.a = k, !.b = a]
    /\ UNCHANGED notRel

\* k.members.discard(a)
RelDiscardMember(k, a) ==
    /\ Members_discard(k, a)
    /\ inserted' = DictOrder(inserted, ModelNext)
    /\ relOp' = [NoOp EXCEPT !.op = "discard", !.name = "members", !.a = k, !.b = a]
    /\ UNCHANGED notRel

\* a.collections.add(k)
RelAddCollection(a, k) ==
    /\ EdgeCount < MaxStored
    /\ Collections_add(a, k)
    /\ inserted' = DictOrder(inserted, ModelNext)
    /\ relOp' = [NoOp EXCEPT !.op = "add", !.name = "collections", !.a = a, !.b = k]
    /\ UNCHANGED notRel

\* a.collections.discard(k)
RelDiscardCollection(a, k) ==
    /\ Collections_discard(a, k)
    /\ inserted' = DictOrder(inserted, ModelNext)
    /\ relOp' = [NoOp EXCEPT !.op = "discard", !.name = "collections", !.a = a,
                             !.b = k]
    /\ UNCHANGED notRel

\* del s.<attr>[key] on a plain accessor
RelDeleteKey(attr, s, key) ==
    /\ Concepts_delitem(attr, s, key)
    /\ inserted' = DictOrder(inserted, ModelNext)
    /\ relOp' = [NoOp EXCEPT !.op = "delete", !.name = attr, !.a = s, !.b = key,
                             !.was = IF key \in Model[attr][s]
                                     THEN "held" ELSE "absent",
                             !.result = Concepts_delitem_result(attr, s, key)]
    /\ UNCHANGED notRel

\* s.<attr>.pop() on a plain accessor
RelPopKey(attr, s) ==
    /\ Concepts_pop(attr, s)
    /\ inserted' = DictOrder(inserted, ModelNext)
    /\ relOp' = [NoOp EXCEPT !.op = "pop", !.name = attr, !.a = s,
                             !.was = IF Model[attr][s] = {}
                                     THEN "empty" ELSE "nonempty",
                             !.result = IF inserted[attr][s] = << >>
                                        THEN "KeyError" ELSE "ok",
                             !.value = Concepts_pop_key(attr, s)]
    /\ UNCHANGED notRel

\* s.<attr>.update(values) on a plain accessor: InstrumentedConcepts.update
\* hands back an iterator over the values and stores none of them.
RelUpdate(attr, s, values) ==
    /\ SetModel([Model EXCEPT ![attr][s] = InstrumentedConcepts_update(@, values)])
    /\ inserted' = DictOrder(inserted, ModelNext)
    /\ relOp' = [NoOp EXCEPT !.op = "update", !.name = attr, !.a = s]
    /\ UNCHANGED notRel

RelAdd(name, a, b) ==
    /\ EdgeCount < MaxStored
    /\ AttributeJoin_add(name, a, b)
    /\ relOp' = [NoOp EXCEPT !.op = "add", !.name = name, !.a = a, !.b = b]
    /\ UNCHANGED <<inserted, notRel>>

RelDiscard(name, a, b) ==
    /\ AttributeJoin_discard(name, a, b)
    /\ relOp' = [NoOp EXCEPT !.op = "discard", !.name = name, !.a = a, !.b = b,
                             !.was = Where(name, a, b)]
    /\ UNCHANGED <<inserted, notRel>>

\* del a.<name>[b]
RelDelete(name, a, b) ==
    /\ AttributeJoin_delitem(name, a, b)
    /\ relOp' = [NoOp EXCEPT !.op = "delete", !.name = name, !.a = a, !.b = b,
                             !.was = Where(name, a, b),
                             !.result = AttributeJoin_delitem_result(name, a, b)]
    /\ UNCHANGED <<inserted, notRel>>

\* a.<name>.pop()
RelPop(name, a) ==
    /\ AttributeJoin_pop(name, a)
    /\ relOp' = [NoOp EXCEPT !.op = "pop", !.name = name, !.a = a,
                             !.was = IF AttributeJoin_len(name, a) = 0
                                     THEN "empty" ELSE "nonempty",
                             !.result = "AttributeError"]
    /\ UNCHANGED <<inserted, notRel>>

\* a.synonyms = values, a.related = values
RelSet(name, a, values) ==
    /\ EdgeCount + Cardinality(values \ left[name][a]) <= MaxStored
    /\ setJoin(name, a, values)
    /\ relOp' = [NoOp EXCEPT !.op = "set", !.name = name, !.a = a,
                             !.values = values]
    /\ UNCHANGED <<inserted, notRel>>

\* Iterating a.<name> to its end: list(a.<name>).
RelIterate(name, a) ==
    LET l == AttributeJoin_iter(left[name][a], right[name][a])
    IN /\ left' = [left EXCEPT ![name][a] = l]
       /\ relOp' = [NoOp EXCEPT !.op = "iter", !.name = name, !.a = a, !.yielded = l]
       /\ UNCHANGED <<broader, narrower, right, members, collections>>
       /\ UNCHANGED <<inserted, notRel>>

InitRel ==
    /\ InitObj
    /\ relOp = NoOp
    /\ inserted = EmptyOrder
    /\ InitCollIdle
    /\ InitLoadIdle
    /\ InitBuildIdle
    /\ InitTripIdle
    /\ InitLangIdle

NextRel ==
    \/ \E a, b \in ConceptURIs : RelAddBroader(a, b)
    \/ \E a, b \in ConceptURIs : RelAddNarrower(a, b)
    \/ \E a, b \in ConceptURIs : RelDiscardBroader(a, b)
    \/ \E a, b \in ConceptURIs : RelDiscardNarrower(a, b)
    \/ \E k \in CollectionURIs : \E a \in ConceptURIs : RelAddMember(k, a)
    \/ \E k \in CollectionURIs : \E a \in ConceptURIs : RelDiscardMember(k, a)
    \/ \E a \in ConceptURIs : \E k \in CollectionURIs : RelAddCollection(a, k)
    \/ \E a \in ConceptURIs : \E k \in CollectionURIs : RelDiscardCollection(a, k)
    \/ \E attr \in PlainNames : \E s \in Owners(attr) : \E key \in Held(attr) :
          RelDeleteKey(attr, s, key)
    \/ \E attr \in PlainNames : \E s \in Owners(attr) : RelPopKey(attr, s)
    \/ \E attr \in PlainNames : \E s \in Owners(attr) : \E b \in Held(attr) :
          RelUpdate(attr, s, {b})
    \/ \E n \in JoinNames : \E a, b \in ConceptURIs : RelAdd(n, a, b)
    \/ \E n \in JoinNames : \E a, b \in ConceptURIs : RelDiscard(n, a, b)
    \/ \E n \in JoinNames : \E a, b \in ConceptURIs : RelDelete(n, a, b)
    \/ \E n \in JoinNames : \E a \in ConceptURIs : RelPop(n, a)
    \/ \E n \in JoinNames : \E a \in ConceptURIs :
          \E values \in SUBSET ConceptURIs : RelSet(n, a, values)
    \/ \E n \in JoinNames : \E a \in ConceptURIs : RelIterate(n, a)

SpecRel == InitRel /\ [][NextRel]_vars

(***************************************************************************)
(* Claims about the relation accessors                                     *)
(***************************************************************************)

\* C1: after any sequence of add and discard through the broader, narrower,
\* related and synonyms accessors, for all concepts a and b: a.broader
\* contains b iff b.narrower contains a, a.related contains b iff b.related
\* contains a, and a.synonyms contains b iff b.synonyms contains a.
C1_SymmetricRelations ==
    \A a, b \in ConceptURIs :
        /\ (b \in broader[a]) <=> (a \in narrower[b])
        /\ \A n \in JoinNames :
              AttributeJoin_contains(n, a, b) <=> AttributeJoin_contains(n, b, a)

\* C1 witness: an add through a plain accessor and one through a merged view
\* have acted between two different concepts, and the entry the view had
\* stored was discarded again: it is gone from the views of both concepts.
C1_Witness ==
    /\ relOp.op = "discard"
    /\ relOp.name = "related"
    /\ relOp.a = "A"
    /\ relOp.b = "U"
    /\ relOp.was = "left"
    /\ "U" \in broader["A"]
    /\ "A" \in narrower["U"]
    /\ ~AttributeJoin_contains("related", "A", "U")
    /\ ~AttributeJoin_contains("related", "U", "A")

\* Every relationship and its backref hold each other's entries, and the
\* insertion order kept for a plain accessor lists exactly the keys of its
\* dict, each once.
BackrefsAgree ==
    /\ \A a, b \in AllURIs :
          /\ (b \in broader[a]) <=> (a \in narrower[b])
          /\ (b \in members[a]) <=> (a \in collections[b])
          /\ \A n \in JoinNames : (b \in left[n][a]) <=> (a \in right[n][b])
    /\ \A attr \in PlainNames : \A c \in AllURIs :
          /\ {inserted[attr][c][i] : i \in 1..Len(inserted[attr][c])} = Model[attr][c]
          /\ Len(inserted[attr][c]) = Cardinality(Model[attr][c])

\* A pop on a plain accessor that holds entries returns the key stored last
\* and takes it out of the collection and the owner out of its backref.
PlainPopRemovesLast ==
    (relOp.op = "pop" /\ relOp.name \in PlainNames /\ relOp.was = "nonempty") =>
        /\ relOp.result = "ok"
        /\ relOp.value \notin Model[relOp.name][relOp.a]
        /\ relOp.a \notin Model[Inverse(relOp.name)][relOp.value]

\* After `a.<n> = values` the view of a holds the values other than a itself,
\* all of them in the left store; the right store of a is empty.
SetterReplacesView ==
    relOp.op = "set" =>
        /\ left[relOp.name][relOp.a] = relOp.values \ {relOp.a}
        /\ right[relOp.name][relOp.a] = {}

\* C2: iterating a merged view yields exactly the union of the keys of its
\* left and right stores, and folds the entries found only in right into left
\* (so that a second iteration changes nothing and yields the same keys).
C2_IterateYieldsUnion ==
    relOp.op = "iter" =>
        /\ relOp.yielded = left[relOp.name][relOp.a] \cup right[relOp.name][relOp.a]
        /\ right[relOp.name][relOp.a] \subseteq left[relOp.name][relOp.a]

(***************************************************************************)
(* Concepts: the collection keyed by uri                                   *)
(***************************************************************************)

\* The keys of a dict, given as its items in insertion order.
DictKeys(d) == {d[i].key : i \in 1..Len(d)}

\* dict.__getitem__ for a key that is present.
DictGet(d, k) == (CHOOSE i \in 1..Len(d) : d[i].key = k)

\* dict.__delitem__ for a key that is present.
DictDel(d, k) == SelectSeq(d, LAMBDA item : item.key # k)

\* A list-like add: the value is appended whatever the collection holds.
Concepts_add_append(d, value) == Append(d, [key |-> value.uri, value |-> value])

\* Concepts.add: self._concepts[value.uri] = value. An existing key keeps its
\* place and takes the new value; a new key is appended.
Concepts_add(d, value) ==
    IF value.uri \in DictKeys(d)
    THEN [d EXCEPT ![DictGet(d, value.uri)].value = value]
    ELSE Append(d, [key |-> value.uri, value |-> value])

\* Concepts.discard: del self._concepts[value.uri], KeyError swallowed.
Concepts_discard(d, value) ==
    IF value.uri \in DictKeys(d) THEN DictDel(d, value.uri) ELSE d

\* Concepts.update: add every value of the source, in its order. A Mapping
\* gives its values(), any other iterable its elements.
RECURSIVE Concepts_update(_, _)
Concepts_update(d, values) ==
    IF values = << >> THEN d
    ELSE Concepts_update(Concepts_add(d, Head(values)), Tail(values))

\* The values of a Mapping source: source.values().
MappingValues(m) == [i \in 1..Len(m) |-> m[i].value]

\* Sequences over S of length at most n.
SeqsUpTo(S, n) == UNION {[1..k -> S] : k \in 0..n}

\* The Mapping sources offered to update: dicts whose keys need not be the
\* uri of their value.
MappingSources ==
    {m \in SeqsUpTo([key : ConceptURIs, value : Entities], MaxUpdate) :
        \A i, j \in 1..Len(m) : i # j => m[i].key # m[j].key}

CollRecord(op, e, result) ==
    [op |-> op, uri |-> e.uri, label |-> e.label, result |-> result]

\* collection.add(value)
CollAdd(value) ==
    /\ concepts' = Concepts_add(concepts, value)
    /\ collOp' = CollRecord("add", value, "ok")
    /\ collPrev' = collOp
    /\ UNCHANGED notColl

\* collection.discard(value)
CollDiscard(value) ==
    /\ concepts' = Concepts_discard(concepts, value)
    /\ collOp' = CollRecord("discard", value, "ok")
    /\ collPrev' = collOp
    /\ UNCHANGED notColl

\* collection.pop(): dict.popitem() removes the item inserted last and
\* raises KeyError on an empty dict.
CollPop ==
    /\ IF concepts = << >>
       THEN /\ concepts' = concepts
            /\ collOp' = [NoCollOp EXCEPT !.op = "pop", !.result = "KeyError"]
       ELSE /\ concepts' = SubSeq(concepts, 1, Len(concepts) - 1)
            /\ collOp' = CollRecord("pop", concepts[Len(concepts)].value, "ok")
    /\ collPrev' = collOp
    /\ UNCHANGED notColl

\* del collection[key]: self.discard(self._concepts[key]); the lookup raises
\* KeyError for an absent key.
CollDelete(key) ==
    /\ IF key \in DictKeys(concepts)
       THEN /\ concepts' = Concepts_discard(concepts, concepts[DictGet(concepts, key)].value)
            /\ collOp' = [NoCollOp EXCEPT !.op = "delete", !.uri = key]
       ELSE /\ concepts' = concepts
            /\ collOp' = [NoCollOp EXCEPT !.op = "delete", !.uri = key,
                                          !.result = "KeyError"]
    /\ collPrev' = collOp
    /\ UNCHANGED notColl

\* collection.update(sequence of entities)
CollUpdateSequence(values) ==
    /\ concepts' = Concepts_update(concepts, values)
    /\ collOp' = [NoCollOp EXCEPT !.op = "update"]
    /\ collPrev' = collOp
    /\ UNCHANGED notColl

\* collection.update(mapping)
CollUpdateMapping(m) ==
    /\ concepts' = Concepts_update(concepts, MappingValues(m))
    /\ collOp' = [NoCollOp EXCEPT !.op = "update"]
    /\ collPrev' = collOp
    /\ UNCHANGED notColl

InitColl ==
    /\ InitObj
    /\ relOp = NoOp
    /\ inserted = EmptyOrder
    /\ InitCollIdle
    /\ InitLoadIdle
    /\ InitBuildIdle
    /\ InitTripIdle
    /\ InitLangIdle

NextColl ==
    \/ \E e \in Entities : CollAdd(e)
    \/ \E e \in Entities : CollDiscard(e)
    \/ CollPop
    \/ \E k \in ConceptURIs : CollDelete(k)
    \/ \E vs \in SeqsUpTo(Entities, MaxUpdate) : CollUpdateSequence(vs)
    \/ \E m \in MappingSources : CollUpdateMapping(m)

SpecColl == InitColl /\ [][NextColl]_vars

\* C3: in every state reachable by add, discard, pop, delete and update no
\* two members share a uri and every key maps to an entity whose uri is that
\* key; after add(y) the collection holds exactly one entry for y.uri, and it
\* is y (so add(x) then add(y) with x.uri = y.uri leaves y alone).
C3_KeyUniqueness ==
    /\ \A i, j \in 1..Len(concepts) :
          i # j => /\ concepts[i].key # concepts[j].key
                   /\ concepts[i].value.uri # concepts[j].value.uri
    /\ \A i \in 1..Len(concepts) : concepts[i].value.uri = concepts[i].key
    /\ collOp.op = "add" =>
          /\ Cardinality({i \in 1..Len(concepts) : concepts[i].value.uri = collOp.uri}) = 1
          /\ \A i \in 1..Len(concepts) :
                concepts[i].value.uri = collOp.uri =>
                    concepts[i].value = [uri |-> collOp.uri, label |-> collOp.label]

\* C3 witness: add(x) was followed by add(y) with the same uri and another
\* content, in a collection that holds a second entry too.
C3_Witness ==
    /\ collPrev.op = "add"
    /\ collOp.op = "add"
    /\ collPrev.uri = collOp.uri
    /\ collPrev.label # collOp.label
    /\ Len(concepts) = 2

(***************************************************************************)
(* RDFLoader: the resolver                                                 *)
(***************************************************************************)

\* The subsets of T with at most n elements.
RECURSIVE SubsetsUpTo(_, _)
SubsetsUpTo(T, n) ==
    IF n = 0 THEN {{}}
    ELSE LET P == SubsetsUpTo(T, n - 1)
         IN P \cup {g \cup {t} : g \in P, t \in T}

\* The statements a graph may hold: <<subject, "type", kind>> and
\* <<subject, predicate, object>>.
TripleUniverse ==
    (GraphURIs \X {"type"} \X Kinds) \cup (GraphURIs \X Predicates \X GraphURIs)

\* The graphs handed to the loader.
RootGraphs == SubsetsUpTo(TripleUniverse, MaxTriples)

\* What graph.parse(uri) may add when it succeeds: some of a description of
\* the resource (its type, its links to the other resources), or nothing.
DocUniverse(u) ==
    {<<u, "type", "Concept">>} \cup {<<u, "broader", v>> : v \in GraphURIs \ {u}}

Docs(u) == SUBSET DocUniverse(u)

\* max_depth = float(max_depth): a number of levels, or float('inf').
Depths ==
    [finite : {TRUE}, value : 0..MaxDepth] \cup {[finite |-> FALSE, value |-> 0]}

\* resolvable_predicates of _resolveGraph
resolvable_predicates ==
    {"broader", "narrower", "exactMatch", "sameAs", "related", "member"}

\* resolvable_objects of _resolveGraph: the objects of the type statements
\* whose subjects count as resolved.
resolvable_objects == {"ConceptScheme", "Concept", "Collection", "hasTopConcept"}

\* normalise_uri: the default, str, on a URIRef.
normalise_uri(u) == u

\* graph.subjects(predicate=rdf:type, object=kind)
Subjects(g, kind) == {normalise_uri(t[1]) : t \in {x \in g : x[2] = "type" /\ x[3] = kind}}

\* `if depth > self.max_depth: return`: one level too many.
DepthReached_off_by_one(depth) == max_depth.finite /\ depth > max_depth.value

\* `if depth >= self.max_depth: return`
DepthReached(depth) == max_depth.finite /\ depth >= max_depth.value

\* "add existing resolved objects": resolved.update(subjects of each type)
AddExisting(g, res) == res \cup UNION {Subjects(g, k) : k \in resolvable_objects}

\* The objects of the statements of the resolvable predicates not yet resolved.
Unresolved(g, res) ==
    {normalise_uri(t[3]) : t \in {x \in g : x[2] \in resolvable_predicates}} \ res

\* The unresolved are not flagged: resolved is left as it is.
FlagResolved_forgotten(res, unresolved) == res

\* resolved.update(unresolved), before any of them is fetched
FlagResolved(res, unresolved) == res \cup unresolved

Top == rstack[Len(rstack)]

\* A call of _resolveGraph returns: its frame is dropped; when it was the call
\* made by load, load goes on to build the objects.
Return(stack) ==
    /\ rstack' = SubSeq(stack, 1, Len(stack) - 1)
    /\ lpc' = IF Len(stack) = 1 THEN "load" ELSE "resolve"

\* RDFLoader.load up to its call of _resolveGraph(graph): the types found in
\* the graph as handed in are recorded.
LoadStart ==
    /\ lpc = "new"
    /\ loader' = [NoLoader EXCEPT !.concepts = Subjects(graph, "Concept"),
                                  !.collections = Subjects(graph, "Collection"),
                                  !.schemes = Subjects(graph, "ConceptScheme")]
    /\ rstack' = <<[depth |-> 0, phase |-> "entry", unresolved |-> {}]>>
    /\ lpc' = "resolve"
    /\ UNCHANGED <<graph, graph0, max_depth, resolved, fetched, everUnresolved,
                   rsteps, err>>
    /\ UNCHANGED <<objVars, notLoad>>

\* _resolveGraph from its entry to its loop: the depth test, the scan of the
\* graph and the flagging of the unresolved.
ResolveEntry ==
    /\ lpc = "resolve"
    /\ Top.phase = "entry"
    /\ IF DepthReached(Top.depth)
       THEN /\ Return(rstack)
            /\ UNCHANGED <<resolved, everUnresolved>>
       ELSE LET res == AddExisting(graph, resolved)
                un == Unresolved(graph, res)
            IN /\ resolved' = FlagResolved(res, un)
               /\ everUnresolved' = everUnresolved \cup un
               /\ rstack' = [rstack EXCEPT ![Len(rstack)] =
                                [@ EXCEPT !.phase = "loop", !.unresolved = un]]
               /\ lpc' = "resolve"
    /\ rsteps' = rsteps + 1
    /\ UNCHANGED <<graph, graph0, max_depth, fetched, err, loader>>
    /\ UNCHANGED <<objVars, notLoad>>

\* One turn of `for uri in unresolved`: graph.parse(uri) succeeds and adds the
\* document to the graph (parse returns the graph itself), and
\* _resolveGraph is called on it one level deeper.
FetchOk(u, doc) ==
    /\ lpc = "resolve"
    /\ Top.phase = "loop"
    /\ u \in Top.unresolved
    /\ graph' = graph \cup doc
    /\ fetched' = Append(fetched, [uri |-> u, depth |-> Top.depth])
    /\ rstack' = Append([rstack EXCEPT ![Len(rstack)].unresolved = @ \ {u}],
                        [depth |-> Top.depth + 1, phase |-> "entry",
                         unresolved |-> {}])
    /\ rsteps' = rsteps + 1
    /\ UNCHANGED <<graph0, max_depth, lpc, resolved, everUnresolved, err, loader>>
    /\ UNCHANGED <<objVars, notLoad>>

\* One turn of the loop in which graph.parse(uri) raises: nothing catches the
\* exception, which leaves every active call, load and the constructor.
FetchFail(u) ==
    /\ lpc = "resolve"
    /\ Top.phase = "loop"
    /\ u \in Top.unresolved
    /\ fetched' = Append(fetched, [uri |-> u, depth |-> Top.depth])
    /\ rstack' = << >>
    /\ lpc' = "raised"
    /\ err' = "FetchError"
    /\ rsteps' = rsteps + 1
    /\ UNCHANGED <<graph, graph0, max_depth, resolved, everUnresolved, loader>>
    /\ UNCHANGED <<objVars, notLoad>>

\* The loop of a call is exhausted: the call returns.
ResolveReturn ==
    /\ lpc = "resolve"
    /\ Top.phase = "loop"
    /\ Top.unresolved = {}
    /\ Return(rstack)
    /\ rsteps' = rsteps + 1
    /\ UNCHANGED <<graph, graph0, max_depth, resolved, fetched, everUnresolved,
                   err, loader>>
    /\ UNCHANGED <<objVars, notLoad>>

(***************************************************************************)
(* RDFLoader: building the objects                                         *)
(***************************************************************************)

\* attrs of _loadConcepts: the predicate of a statement and the accessor of
\* the subject its object is added through.
attrs ==
    [narrower |-> "narrower", broader |-> "broader", related |-> "related",
     exactMatch |-> "synonyms", sameAs |-> "synonyms"]

\* The statements of the graph whose object is found in the cache, for the
\* given predicates: the others are passed over (`except KeyError: continue`).
Matched(g, preds, cached) == {t \in g : t[2] \in preds /\ normalise_uri(t[3]) \in cached}

\* cache[normalise_uri(subject)] of the wiring loop of _loadConcepts: the
\* lookup is outside the try, a subject that is not cached raises KeyError.
SubjectError(t, cached) ==
    IF normalise_uri(t[1]) \in cached THEN "none" ELSE "KeyError"

\* cache[normalise_uri(subject)].members.add(member) of _loadCollections, on
\* the cache as it is then (Concepts, overwritten by Collections): KeyError
\* for a subject that is not cached, AttributeError for a subject that is a
\* Concept (it has no `members`), and KeyError from the backref of `members`
\* for a member that is a Collection (it has no `collections`).
MemberError(t, conceptKeys, collectionKeys) ==
    IF normalise_uri(t[1]) \notin (conceptKeys \cup collectionKeys) THEN "KeyError"
    ELSE IF normalise_uri(t[1]) \notin collectionKeys THEN "AttributeError"
    ELSE IF normalise_uri(t[3]) \in collectionKeys THEN "KeyError"
    ELSE "none"

\* The adds of a set of statements, each through the accessor of its subject.
RECURSIVE Wire(_, _)
Wire(om, stmts) ==
    IF stmts = {} THEN om
    ELSE LET t == CHOOSE x \in stmts : TRUE
             attr == IF t[2] = "member" THEN "members" ELSE attrs[t[2]]
         IN Wire(Accessor_add(om, attr, normalise_uri(t[1]), normalise_uri(t[3])),
                 stmts \ {t})

\* The cache after _loadConcepts, _loadCollections and _loadConceptSchemes:
\* each assigns cache[uri], so a uri of several types holds the object made
\* last.
FlatCache(conceptKeys, collectionKeys, schemeKeys) ==
    [u \in conceptKeys \cup collectionKeys \cup schemeKeys |->
        IF u \in schemeKeys THEN "ConceptScheme"
        ELSE IF u \in collectionKeys THEN "Collection"
        ELSE "Concept"]

\* RDFLoader.load after _resolveGraph: _loadConcepts, _loadCollections,
\* _loadConceptSchemes and the two caches, each result assigned as its call
\* returns. An exception of the wiring leaves load and the constructor: no
\* object is handed out, and the loader keeps what was assigned before it:
\* nothing more when _loadConcepts raises, _flat_concepts when
\* _loadCollections does.
LoadObjects ==
    /\ lpc = "load"
    /\ LET cs == Subjects(graph, "Concept")
           ks == Subjects(graph, "Collection")
           ss == Subjects(graph, "ConceptScheme")
           w1 == Matched(graph, DOMAIN attrs, cs)
           e1 == {SubjectError(t, cs) : t \in w1} \ {"none"}
           w2 == Matched(graph, {"member"}, cs \cup ks)
           e2 == {MemberError(t, cs, ks) : t \in w2} \ {"none"}
           w1ok == {t \in w1 : normalise_uri(t[1]) \in cs}
           flat == FlatCache(cs, ks, ss)
       IN IF e1 # {}
          THEN /\ lpc' = "raised"
               /\ err' \in e1
               /\ UNCHANGED <<objVars, loader>>
          ELSE IF e2 # {}
          THEN /\ lpc' = "raised"
               /\ err' \in e2
               /\ loader' = [loader EXCEPT !.flat_concepts = cs]
               /\ UNCHANGED objVars
          ELSE /\ lpc' = "done"
               /\ err' = "none"
               /\ SetModel(Wire(Wire(Model, w1ok), w2))
               /\ loader' =
                    [loader EXCEPT
                        !.flat_concepts = cs,
                        !.flat_collections = ks,
                        !.flat_schemes = ss,
                        !.flat_cache = flat,
                        !.cache = [u \in loader.concepts \cup loader.schemes
                                          \cup loader.collections |-> flat[u]]]
    /\ UNCHANGED <<graph, graph0, max_depth, rstack, resolved, fetched,
                   everUnresolved, rsteps>>
    /\ UNCHANGED notLoad

\* _getAttr with the prefix given to the other mode.
getAttr_swapped(name, flat) ==
    CASE name = "_cache" -> IF flat THEN loader.cache ELSE loader.flat_cache
      [] name = "_concepts" -> IF flat THEN loader.concepts ELSE loader.flat_concepts
      [] name = "_collections" ->
           IF flat THEN loader.collections ELSE loader.flat_collections
      [] name = "_schemes" -> IF flat THEN loader.schemes ELSE loader.flat_schemes

\* RDFLoader._getAttr(name, flat) for the names "_cache", "_concepts",
\* "_collections" and "_schemes": flat prefixes the name with "_flat".
getAttr(name, flat) ==
    CASE name = "_cache" -> IF flat THEN loader.flat_cache ELSE loader.cache
      [] name = "_concepts" -> IF flat THEN loader.flat_concepts ELSE loader.concepts
      [] name = "_collections" ->
           IF flat THEN loader.flat_collections ELSE loader.collections
      [] name = "_schemes" -> IF flat THEN loader.flat_schemes ELSE loader.schemes

\* RDFLoader.getConcepts(flat): Concepts([cache[key] for key in concepts]), as
\* the map from each key to the kind of the object under it.
getConcepts(flat) ==
    [key \in getAttr("_concepts", flat) |-> getAttr("_cache", flat)[key]]

\* RDFLoader(graph, max_depth): the constructor has checked its arguments and
\* calls load.
InitLoad ==
    /\ InitObj
    /\ relOp = NoOp
    /\ inserted = EmptyOrder
    /\ InitCollIdle
    /\ graph \in RootGraphs
    /\ graph0 = graph
    /\ max_depth \in Depths
    /\ lpc = "new"
    /\ rstack = << >>
    /\ resolved = {}
    /\ fetched = << >>
    /\ everUnresolved = {}
    /\ rsteps = 0
    /\ err = "none"
    /\ loader = NoLoader
    /\ InitBuildIdle
    /\ InitTripIdle
    /\ InitLangIdle

NextLoad ==
    \/ LoadStart
    \/ ResolveEntry
    \/ \E u \in GraphURIs : \E doc \in Docs(u) : FetchOk(u, doc)
    \/ \E u \in GraphURIs : FetchFail(u)
    \/ ResolveReturn
    \/ LoadObjects

SpecLoad == InitLoad /\ [][NextLoad]_vars


(***************************************************************************)
(* Claims about the loader                                                 *)
(***************************************************************************)

\* The statements of g that refer to u through a resolvable predicate.
References(g, u) == {t \in g : t[2] \in resolvable_predicates /\ t[3] = u}

\* C4: during one resolution no uri is fetched twice, however many statements
\* refer to it and at whatever depth they are found, cyclic references
\* included, and the number of fetches never exceeds the number of distinct
\* uris collected as unresolved.
C4_SingleFetch ==
    /\ \A i, j \in 1..Len(fetched) : i # j => fetched[i].uri # fetched[j].uri
    /\ Len(fetched) <= Cardinality(everUnresolved)

\* C4 witness: resolution has ended on a cyclic reference graph in which U
\* is referred to by two statements of the input graph and, one level deeper,
\* by the document fetched for A, itself found in the document fetched for U.
C4_Witness ==
    /\ lpc = "load"
    /\ fetched = <<[uri |-> "U", depth |-> 0], [uri |-> "A", depth |-> 1]>>
    /\ <<"A", "related", "U">> \in graph0
    /\ <<"U", "related", "U">> \in graph0
    /\ <<"U", "broader", "A">> \in graph \ graph0
    /\ <<"A", "broader", "U">> \in graph \ graph0

\* Every fetch was made by a call whose depth is below max_depth.
FetchesWithinDepth ==
    \A i \in 1..Len(fetched) :
        max_depth.finite => fetched[i].depth < max_depth.value

ResolutionFinished == lpc \in {"load", "done", "raised"}

\* C5: resolution always terminates, on cyclic reference graphs too: until it
\* has ended it can take a step, and it takes at most three steps for each
\* uri of the graphs (the fetch, the entry and the return of the call made
\* for it) and two for the call made by load. No fetch is made from a call
\* whose depth is >= max_depth, and none at all when max_depth is 0.
C5_TerminatesWithinDepth ==
    /\ FetchesWithinDepth
    /\ max_depth = [finite |-> TRUE, value |-> 0] => fetched = << >>
    /\ rsteps <= 3 * Cardinality(GraphURIs) + 2
    /\ ~ResolutionFinished => ENABLED NextLoad

\* C5 witness: resolution has ended at max_depth 1 after a fetch, on a cyclic
\* reference graph, leaving a reference of the fetched document unresolved.
C5_Witness ==
    /\ lpc = "load"
    /\ max_depth = [finite |-> TRUE, value |-> 1]
    /\ fetched = <<[uri |-> "U", depth |-> 0]>>
    /\ <<"A", "broader", "U">> \in graph0
    /\ <<"U", "broader", "A">> \in graph \ graph0
    /\ "A" \notin resolved

\* C6: a failed fetch of one uri is not fatal: it is not surfaced to the
\* caller, and the load completes.
C6_FetchFailureNotFatal == ~(lpc = "raised" /\ err = "FetchError")

\* C7: relation wiring never raises: a statement one of whose endpoints is
\* missing from the cache is passed over.
C7_WiringNeverRaises == ~(lpc = "raised" /\ err \in {"KeyError", "AttributeError"})

\* The input graph of the flat and deep scenario: Concept A with a broader
\* link to U, which the graph does not define.
ScenarioGraph == {<<"A", "type", "Concept">>, <<"A", "broader", "U">>}

AllSubjects(g) == UNION {Subjects(g, k) : k \in Kinds}

\* C8 as stated: flat=True gives the entities typed in the input graph before
\* resolution, flat=False every entity found through resolution too.
C8_FlatIsInputOnly ==
    lpc = "done" =>
        /\ DOMAIN getConcepts(TRUE) = Subjects(graph0, "Concept")
        /\ DOMAIN getConcepts(FALSE) = Subjects(graph, "Concept")

\* C8 amended: the modes are the other way round. flat=True gives every
\* entity typed in the graph after resolution, flat=False only those typed
\* in the input graph. In the scenario: with max_depth 0 getConcepts(True)
\* holds A alone; with max_depth 1 and U fetched and defined,
\* getConcepts(True) holds A and U, getConcepts(False) holds A alone, and
\* A.broader contains U.
C8_FlatIsEverything ==
    lpc = "done" =>
        /\ DOMAIN getConcepts(TRUE) = Subjects(graph, "Concept")
        /\ DOMAIN getConcepts(FALSE) = Subjects(graph0, "Concept")
        /\ DOMAIN getAttr("_cache", TRUE) = AllSubjects(graph)
        /\ DOMAIN getAttr("_cache", FALSE) = AllSubjects(graph0)
        /\ graph0 = ScenarioGraph =>
              /\ max_depth = [finite |-> TRUE, value |-> 0] =>
                    DOMAIN getConcepts(TRUE) = {"A"}
              /\ (max_depth = [finite |-> TRUE, value |-> 1]
                    /\ <<"U", "type", "Concept">> \in graph) =>
                    /\ DOMAIN getConcepts(TRUE) = {"A", "U"}
                    /\ DOMAIN getConcepts(FALSE) = {"A"}
                    /\ "U" \in broader["A"]

\* C8 witness: the scenario, loaded with max_depth 1 and U fetched and defined.
C8_Witness ==
    /\ lpc = "done"
    /\ graph0 = ScenarioGraph
    /\ max_depth = [finite |-> TRUE, value |-> 1]
    /\ fetched = <<[uri |-> "U", depth |-> 0]>>
    /\ <<"U", "type", "Concept">> \in graph

(***************************************************************************)
(* RDFBuilder                                                              *)
(***************************************************************************)

\* The type statement objectInGraph looks for and the build* methods add.
TypeTriple(obj) == <<obj.uri, "type", obj.kind>>

\* objectInGraph never finds the object.
objectInGraph_never(obj, g) == FALSE

\* RDFBuilder.objectInGraph: (uri, rdf:type, skos:<class name>) in graph
objectInGraph(obj, g) == <<obj.uri, "type", obj.kind>> \in g

\* rdflib.Literal(value) of a str: a literal with that lexical form and no
\* language tag.
Literal(value) == [lex |-> value.v, lang |-> "None"]

\* datetime.isoformat(): an aware datetime ends in its offset, a naive one
\* has none.
isoformat(d) ==
    Str(IF d.tz = "naive" THEN d.v ELSE d.v \o "+00:00")

\* The scalar attributes of an object.
ScalarsOf(obj) ==
    IF obj.kind = "ConceptScheme" THEN SchemeScalars ELSE scalars[obj]

\* The type statement a call adds: buildConcept that of a skos:Concept,
\* buildCollection that of a skos:Collection, whatever the class of the
\* object it was given.
AddedType(obj) ==
    <<obj.uri, "type", IF obj.kind = "Concept" THEN "Concept" ELSE "Collection">>

\* The statements buildConcept adds for the scalar attributes of a concept,
\* and those buildCollection adds for the object it is given: the date is
\* added as the literal of its isoformat(), and passed over when the object
\* has none (None, or no date attribute: `except AttributeError: pass`).
ScalarTriples(obj) ==
    IF obj.kind = "Concept"
    THEN {<<obj.uri, p, Literal(ScalarsOf(obj)[p])>> :
            p \in {"notation", "prefLabel", "definition", "altLabel", "note"}}
    ELSE {<<obj.uri, p, Literal(ScalarsOf(obj)[p])>> : p \in {"title", "description"}}
         \cup (IF obj.kind = "Collection" /\ ScalarsOf(obj).date.t = "datetime"
               THEN {<<obj.uri, "date", Literal(isoformat(ScalarsOf(obj).date))>>}
               ELSE {})

\* `collection.members` of buildCollection: a ConceptScheme has `concepts`
\* and no `members`, reading it raises AttributeError.
MembersError(obj) ==
    IF obj.kind = "ConceptScheme" THEN "AttributeError" ELSE "none"

\* The loops of buildConcept and buildCollection in their order, each with
\* the predicate of the statement it adds ("none": it adds none), the keys
\* its .items() or .values() yields and the kind of the objects it reaches.
\* The items of a merged view are those its __iter__ yields.
Loops(obj) ==
    IF obj.kind = "Concept"
    THEN << [pred |-> "exactMatch", kind |-> "Concept",
             todo |-> AttributeJoin_iter(left["synonyms"][obj.uri],
                                         right["synonyms"][obj.uri])],
            [pred |-> "related", kind |-> "Concept",
             todo |-> AttributeJoin_iter(left["related"][obj.uri],
                                         right["related"][obj.uri])],
            [pred |-> "broader", kind |-> "Concept", todo |-> broader[obj.uri]],
            [pred |-> "narrower", kind |-> "Concept", todo |-> narrower[obj.uri]],
            [pred |-> "none", kind |-> "Collection", todo |-> collections[obj.uri]] >>
    ELSE << [pred |-> "member", kind |-> "Concept", todo |-> members[obj.uri]] >>

\* The loops that still have a turn to make.
Pending(loops) == SelectSeq(loops, LAMBDA l : l.todo # {})

TopB == bstack[Len(bstack)]

\* The application wires the object model before it builds.
SetupBroader(a, b) ==
    /\ bpc = "setup"
    /\ EdgeCount < MaxEdges
    /\ Broader_add(a, b)
    /\ UNCHANGED <<buildVars, notBuild>>

SetupNarrower(a, b) ==
    /\ bpc = "setup"
    /\ EdgeCount < MaxEdges
    /\ Narrower_add(a, b)
    /\ UNCHANGED <<buildVars, notBuild>>

SetupJoin(name, a, b) ==
    /\ bpc = "setup"
    /\ EdgeCount < MaxEdges
    /\ AttributeJoin_add(name, a, b)
    /\ UNCHANGED <<buildVars, notBuild>>

SetupMember(k, a) ==
    /\ bpc = "setup"
    /\ EdgeCount < MaxEdges
    /\ Members_add(k, a)
    /\ UNCHANGED <<buildVars, notBuild>>

\* RDFBuilder.build(objects, graph) is called.
BuildStart(objects, g) ==
    /\ bpc = "setup"
    /\ bpc' = "build"
    /\ roots' = objects
    /\ roots0' = objects
    /\ bgraph' = g
    /\ pre' = g
    /\ UNCHANGED <<bstack, emitted, lastBuild>>
    /\ UNCHANGED <<objVars, notBuild>>

\* One turn of `for obj in objects`: an object with a prefLabel goes to
\* buildConcept, any other to buildCollection.
BuildRoot ==
    /\ bpc = "build"
    /\ bstack = << >>
    /\ roots # << >>
    /\ bstack' = <<[obj |-> Head(roots), stage |-> "entry", loops |-> << >>]>>
    /\ roots' = Tail(roots)
    /\ lastBuild' = [step |-> "call", obj |-> Head(roots)]
    /\ UNCHANGED <<bpc, roots0, bgraph, pre, emitted>>
    /\ UNCHANGED <<objVars, notBuild>>

\* buildConcept/buildCollection from the entry to the first loop: the object
\* found in the graph is passed over, any other has its type and its scalar
\* attributes added.
BuildEntry ==
    /\ bpc = "build"
    /\ bstack # << >>
    /\ TopB.stage = "entry"
    /\ IF objectInGraph(TopB.obj, bgraph)
       THEN /\ bstack' = SubSeq(bstack, 1, Len(bstack) - 1)
            /\ lastBuild' = [step |-> "skip", obj |-> TopB.obj]
            /\ UNCHANGED <<bgraph, emitted>>
            /\ UNCHANGED bpc
       ELSE /\ bgraph' = bgraph \cup {AddedType(TopB.obj)} \cup ScalarTriples(TopB.obj)
            /\ emitted' = [emitted EXCEPT ![TopB.obj] = @ + 1]
            /\ IF MembersError(TopB.obj) # "none"
               THEN /\ bpc' = "raised"
                    /\ lastBuild' = [step |-> MembersError(TopB.obj), obj |-> TopB.obj]
                    /\ UNCHANGED bstack
               ELSE /\ bstack' = [bstack EXCEPT ![Len(bstack)] =
                                    [@ EXCEPT !.stage = "loops",
                                              !.loops = Pending(Loops(TopB.obj))]]
                    /\ lastBuild' = [step |-> "emit", obj |-> TopB.obj]
                    /\ UNCHANGED bpc
    /\ UNCHANGED <<roots, roots0, pre>>
    /\ UNCHANGED <<objVars, notBuild>>

\* One turn of a loop: the link to the item is added (the loop over
\* concept.collections adds none) and the item is built.
BuildLink(u) ==
    /\ bpc = "build"
    /\ bstack # << >>
    /\ TopB.stage = "loops"
    /\ TopB.loops # << >>
    /\ LET loop == Head(TopB.loops)
           item == [kind |-> loop.kind, uri |-> u]
       IN /\ u \in loop.todo
          /\ bgraph' = IF loop.pred = "none" THEN bgraph
                       ELSE bgraph \cup {<<TopB.obj.uri, loop.pred, u>>}
          /\ bstack' = Append(
                [bstack EXCEPT ![Len(bstack)].loops =
                    Pending(<<[loop EXCEPT !.todo = @ \ {u}]>> \o Tail(TopB.loops))],
                [obj |-> item, stage |-> "entry", loops |-> << >>])
          /\ lastBuild' = [step |-> "link", obj |-> item]
    /\ UNCHANGED <<bpc, roots, roots0, pre, emitted>>
    /\ UNCHANGED <<objVars, notBuild>>

\* Every loop of the call is exhausted: it returns.
BuildReturn ==
    /\ bpc = "build"
    /\ bstack # << >>
    /\ TopB.stage = "loops"
    /\ TopB.loops = << >>
    /\ bstack' = SubSeq(bstack, 1, Len(bstack) - 1)
    /\ lastBuild' = [step |-> "return", obj |-> TopB.obj]
    /\ UNCHANGED <<bpc, roots, roots0, bgraph, pre, emitted>>
    /\ UNCHANGED <<objVars, notBuild>>

\* `return graph`
BuildDone ==
    /\ bpc = "build"
    /\ bstack = << >>
    /\ roots = << >>
    /\ bpc' = "done"
    /\ UNCHANGED <<roots, roots0, bgraph, pre, bstack, emitted, lastBuild>>
    /\ UNCHANGED <<objVars, notBuild>>

\* The objects handed to build: an iterable of objects of the model.
RootLists == SeqsUpTo(BuildObjects, MaxRoots) \ {<< >>}

\* The graphs handed to build: a new graph (getGraph()) or one that holds a
\* type statement for the uri of an object already, of the object's own class
\* or of another one.
DestinationGraphs ==
    {{}} \cup {{<<o.uri, "type", k>>} : o \in BuildObjects, k \in Kinds}

InitBuild ==
    /\ InitObj
    /\ relOp = NoOp
    /\ inserted = EmptyOrder
    /\ InitCollIdle
    /\ InitLoadIdle
    /\ InitBuildIdle
    /\ InitTripIdle
    /\ InitLangIdle

NextBuild ==
    \/ \E a, b \in ConceptURIs : SetupBroader(a, b)
    \/ \E a, b \in ConceptURIs : SetupNarrower(a, b)
    \/ \E n \in JoinNames : \E a, b \in ConceptURIs : SetupJoin(n, a, b)
    \/ \E k \in CollectionURIs : \E a \in ConceptURIs : SetupMember(k, a)
    \/ \E objects \in RootLists : \E g \in DestinationGraphs : BuildStart(objects, g)
    \/ BuildRoot
    \/ BuildEntry
    \/ \E u \in AllURIs : BuildLink(u)
    \/ BuildReturn
    \/ BuildDone

SpecBuild == InitBuild /\ [][NextBuild]_vars

(***************************************************************************)
(* Builder claims                                                          *)
(***************************************************************************)

\* The objects one step away from an object through the relations the spec
\* names: the merged views synonyms and related (either side), broader,
\* narrower, the enclosing collections, and the members of a collection.
Neighbours(o) ==
    IF o.kind = "Concept"
    THEN {[kind |-> "Concept", uri |-> v] :
            v \in left["synonyms"][o.uri] \cup right["synonyms"][o.uri]
                  \cup left["related"][o.uri] \cup right["related"][o.uri]
                  \cup broader[o.uri] \cup narrower[o.uri]}
         \cup {[kind |-> "Collection", uri |-> k] : k \in collections[o.uri]}
    ELSE {[kind |-> "Concept", uri |-> v] : v \in members[o.uri]}

RECURSIVE Reachable(_)
Reachable(S) ==
    LET n == S \cup UNION {Neighbours(o) : o \in S}
    IN IF n = S THEN S ELSE Reachable(n)

TypeTriplesOf(g, u) == {t \in g : t[1] = u /\ t[2] = "type"}

\* C9: a build into a new graph never stops short of `return graph`, and the
\* graph it returns holds exactly one type statement for every object that
\* can be reached from the objects handed in, each emitted once.
C9_BuildCoversReachable ==
    /\ bpc = "build" => ENABLED NextBuild
    /\ (bpc = "done" /\ pre = {}) =>
          \A o \in Reachable({roots0[i] : i \in DOMAIN roots0}) :
              /\ emitted[o] = 1
              /\ TypeTriplesOf(bgraph, o.uri) = {TypeTriple(o)}

\* A call of buildConcept/buildCollection is at its entry and the graph
\* holds the type statement of its object.
AtEntryOfTyped ==
    /\ bpc = "build"
    /\ bstack # << >>
    /\ TopB.stage = "entry"
    /\ TypeTriple(TopB.obj) \in bgraph

\* A call of buildConcept/buildCollection is at its entry and the graph
\* holds some type statement for the uri of its object, of whatever class.
AtEntryOfAnyTyped ==
    /\ bpc = "build"
    /\ bstack # << >>
    /\ TopB.stage = "entry"
    /\ TypeTriplesOf(bgraph, TopB.obj.uri) # {}

\* C10 as stated: a call of buildConcept/buildCollection for an object whose
\* uri has any type statement in the graph returns with the graph as it was
\* and without having built anything else; a build whose objects all have
\* some type statement for their uri in the graph handed in returns that
\* graph unchanged.
C10_AnyTypeStatementAddsNothing ==
    /\ [][AtEntryOfAnyTyped =>
            /\ bgraph' = bgraph
            /\ bstack' = SubSeq(bstack, 1, Len(bstack) - 1)]_vars
    /\ []((/\ bpc \in {"done", "raised"}
           /\ \A i \in DOMAIN roots0 : TypeTriplesOf(pre, roots0[i].uri) # {})
          => bgraph = pre)

\* C10, amended: a call of buildConcept/buildCollection for an object whose
\* own type statement (uri, rdf:type, skos:<its class>) the graph already
\* holds returns with the graph as it was and without having built anything
\* else; a build whose objects all have their own type statement in the graph
\* handed in returns that graph unchanged.
C10_TypedEntityAddsNothing ==
    /\ [][AtEntryOfTyped =>
            /\ bgraph' = bgraph
            /\ bstack' = SubSeq(bstack, 1, Len(bstack) - 1)]_vars
    /\ []((/\ bpc = "done"
           /\ \A i \in DOMAIN roots0 : TypeTriple(roots0[i]) \in pre)
          => bgraph = pre)

\* A has a broader concept U and sits in collection K; the graph handed in
\* holds A's type statement only; the build of A has just passed it over,
\* and neither A's attributes nor its link to U nor U nor K are in the graph.
C10_Witness ==
    /\ lastBuild = [step |-> "skip", obj |-> [kind |-> "Concept", uri |-> "A"]]
    /\ "U" \in broader["A"]
    /\ "K" \in collections["A"]
    /\ pre = {<<"A", "type", "Concept">>}
    /\ roots0 = <<[kind |-> "Concept", uri |-> "A"]>>
    /\ bgraph = pre
    /\ bstack = << >>

(***************************************************************************)
(* RDFLoader: the scalar attributes                                        *)
(***************************************************************************)

\* The language filter of a load: "None" for lang=None, "" for the empty
\* string, or a language tag. A literal's language is "None" when it has no
\* tag, a tag otherwise; it is never the empty string.
LangTags == {"en", "de"}

\* graph.objects(subject, predicate)
objects(g, s, p) == {t[3] : t \in {x \in g : x[1] = s /\ x[2] = p}}

\* RDFLoader._get_value_for_lang: the value of the first object whose
\* language == lang, None when there is none. graph.objects yields in no
\* given order: the set of the values the call can return.
get_value_for_lang(g, s, p, lang) ==
    LET hits == {o \in objects(g, s, p) : o.lang = lang}
    IN IF hits = {} THEN {PyNone} ELSE {Str(o.lex) : o \in hits}

\* langfilter of _preferredLabel
langfilter(lang, label) ==
    IF lang # "None"
    THEN IF lang = "" THEN label.lang = "None" ELSE label.lang = lang
    ELSE TRUE

\* RDFLoader._preferredLabel(graph, subject, lang, default): the labels of
\* the first of skos:prefLabel and rdfs:label that has any after filtering;
\* {} stands for the default.
preferredLabel(g, s, lang) ==
    LET pref == {o \in objects(g, s, "prefLabel") : langfilter(lang, o)}
        rdfs == {o \in objects(g, s, "label") : langfilter(lang, o)}
    IN IF pref # {} THEN pref ELSE rdfs

\* label = str(label_list[0][1].value), "" from the default label.
LabelOf(g, s, lang) ==
    IF preferredLabel(g, s, lang) = {} THEN {Str("")}
    ELSE {Str(o.lex) : o \in preferredLabel(g, s, lang)}

\* str(graph.value(subject, predicate)): any one object, "None" without one.
StrOfValue(g, s, p) ==
    IF objects(g, s, p) = {} THEN {Str("None")}
    ELSE {Str(o.lex) : o \in objects(g, s, p)}

\* RDFLoader._valueFromPredicates: the first graph.value that is true, an
\* empty literal being false; None when no predicate has one. "absent"
\* stands for None.
RECURSIVE valueFromPredicates(_, _, _)
valueFromPredicates(g, s, preds) ==
    IF preds = << >> THEN {"absent"}
    ELSE LET os == objects(g, s, Head(preds))
         IN {o.lex : o \in {x \in os : x.lex # ""}}
            \cup (IF os = {} \/ (\E o \in os : o.lex = "")
                  THEN valueFromPredicates(g, s, Tail(preds))
                  ELSE {})

\* str(value) of what _valueFromPredicates returned
StrOf(value) == IF value = "absent" THEN Str("None") ELSE Str(value)

\* The days a date can name.
Days == {"d1"}

\* RDFLoader._dcDateToDatetime: iso8601.parse_date(date), which reads the
\* offset of the text and takes UTC for a text without one; None on a
\* ParseError (no date, or a text that is no date).
dcDateToDatetime(value) ==
    IF value \in Days THEN Datetime(value, "UTC")
    ELSE IF \E d \in Days : value = d \o "+00:00"
         THEN Datetime(CHOOSE d \in Days : value = d \o "+00:00", "UTC")
         ELSE PyNone

\* The attributes the Concepts of _loadConcepts can be constructed with.
LoadedConcept(g, s, lang) ==
    {[prefLabel |-> l, definition |-> d, notation |-> n, altLabel |-> a, note |-> o] :
        l \in LabelOf(g, s, lang),
        d \in get_value_for_lang(g, s, "definition", lang),
        n \in StrOfValue(g, s, "notation"),
        a \in get_value_for_lang(g, s, "altLabel", lang),
        o \in StrOfValue(g, s, "note")}

\* The attributes the Collections of _loadCollections can be constructed
\* with; each is looked up under dcterms first, then under dc elements.
LoadedCollection(g, s) ==
    {[title |-> StrOf(t), description |-> StrOf(d), date |-> dcDateToDatetime(x)] :
        t \in valueFromPredicates(g, s, <<"terms/title", "title">>),
        d \in valueFromPredicates(g, s, <<"terms/description", "description">>),
        x \in valueFromPredicates(g, s, <<"terms/date", "date">>)}

(***************************************************************************)
(* Round trip: RDFLoader(RDFBuilder().build(objects))                      *)
(***************************************************************************)

\* Most relation entries of an object model that is built and loaded back.
MaxLinks == 2

\* The statements an application can have wired the objects by.
LinkStatements ==
    {<<a, p, b>> : a \in ConceptURIs, b \in ConceptURIs,
                   p \in {"broader", "narrower", "related", "exactMatch"}}
        \cup {<<k, "member", a>> : k \in CollectionURIs, a \in ConceptURIs}

\* The object models the accessors make of them.
TripModels == {Wire(EmptyModel, S) : S \in SubsetsUpTo(LinkStatements, MaxLinks)}

RECURSIVE SeqOf(_)
SeqOf(S) ==
    IF S = {} THEN << >>
    ELSE LET x == CHOOSE y \in S : TRUE IN <<x>> \o SeqOf(S \ {x})

\* build(objects) with every object of the model, into a new graph.
TripBuild ==
    BuildStart(SeqOf(Objects), {})

\* RDFLoader(graph) on the graph the build returned, with the defaults
\* max_depth=0 and lang=None: nothing is resolved, load makes the objects.
TripLoad ==
    /\ bpc = "done"
    /\ ~trip.loaded
    /\ LET cs == Subjects(bgraph, "Concept")
           ks == Subjects(bgraph, "Collection")
           w1 == Matched(bgraph, DOMAIN attrs, cs)
           e1 == {SubjectError(t, cs) : t \in w1} \ {"none"}
           w2 == Matched(bgraph, {"member"}, cs \cup ks)
           e2 == {MemberError(t, cs, ks) : t \in w2} \ {"none"}
       IN IF e1 \cup e2 # {}
          THEN \E e \in e1 \cup e2 :
                  trip' = [loaded |-> TRUE, err |-> e, concepts |-> {},
                           collections |-> {}, model |-> EmptyModel,
                           scalars |-> DefaultScalars]
          ELSE \E f \in [Objects -> UNION {LoadedConcept(bgraph, o.uri, "None")
                                            \cup LoadedCollection(bgraph, o.uri) :
                                              o \in Objects}] :
                  /\ \A o \in Objects :
                        f[o] \in (IF o.kind = "Concept"
                                  THEN LoadedConcept(bgraph, o.uri, "None")
                                  ELSE LoadedCollection(bgraph, o.uri))
                  /\ trip' = [loaded |-> TRUE, err |-> "none", concepts |-> cs,
                              collections |-> ks,
                              model |-> Wire(Wire(EmptyModel, w1), w2),
                              scalars |-> f]
    /\ UNCHANGED <<objVars, buildVars, scalars, relOp, inserted, collVars, loadVars, langVars>>

InitTrip ==
    /\ \E om \in TripModels :
          /\ broader = om.broader
          /\ narrower = om.narrower
          /\ left = om.left
          /\ right = om.right
          /\ members = om.members
          /\ collections = om.collections
    /\ relOp = NoOp
    /\ inserted = EmptyOrder
    /\ InitCollIdle
    /\ InitLoadIdle
    /\ InitBuildIdle
    /\ scalars \in ScalarChoices
    /\ trip = NoTrip
    /\ InitLangIdle

NextTrip ==
    \/ TripBuild
    \/ BuildRoot
    \/ BuildEntry
    \/ \E u \in AllURIs : BuildLink(u)
    \/ BuildReturn
    \/ BuildDone
    \/ TripLoad

SpecTrip == InitTrip /\ [][NextTrip]_vars

\* No concept is its own ancestor through broader.
RECURSIVE Ancestors(_, _)
Ancestors(S, n) ==
    IF n = 0 THEN S
    ELSE Ancestors(S \cup UNION {broader[c] : c \in S}, n - 1)

Acyclic ==
    \A c \in ConceptURIs : c \notin Ancestors(broader[c], Cardinality(ConceptURIs))

\* Every scalar attribute of every object is given.
AllPresent ==
    \A o \in Objects : \A p \in DOMAIN scalars[o] : scalars[o][p] # PyNone

\* C11: the objects loaded from the graph built from an acyclic object model
\* whose scalar attributes are all given have the same URIs, equal scalar
\* attributes and equal relation collections as the objects built.
C11_RoundTrip ==
    (trip.loaded /\ Acyclic /\ AllPresent) =>
        /\ trip.err = "none"
        /\ trip.concepts = ConceptURIs
        /\ trip.collections = CollectionURIs
        /\ trip.model = Model
        /\ trip.scalars = scalars

\* The part of the round trip that the code keeps: the URIs and the relation
\* collections of the objects loaded are those of the objects built.
RoundTripOfRelations ==
    trip.loaded =>
        /\ trip.err = "none"
        /\ trip.concepts = ConceptURIs
        /\ trip.collections = CollectionURIs
        /\ trip.model = Model

(***************************************************************************)
(* RDFLoader: the language of the textual attributes                       *)
(***************************************************************************)

\* Most literals of the concept in the graph.
MaxLiterals == 2

\* The literals a graph can hold for the concept: any text, tagged with a
\* language or not.
TextLiterals == [lex : Labels, lang : {"None"} \cup LangTags]

\* The textual statements about concept A: its skos:prefLabel, rdfs:label,
\* skos:definition and skos:altLabel.
TextStatements ==
    {<<"A", p, l>> : p \in {"prefLabel", "label", "definition", "altLabel"},
                     l \in TextLiterals}

\* The graphs handed to the loader: concept A with some textual statements.
LangGraphs ==
    {{<<"A", "type", "Concept">>} \cup S : S \in SubsetsUpTo(TextStatements, MaxLiterals)}

\* The lang argument: None, the empty string, or a language tag.
LangFilters == {"None", ""} \cup LangTags

\* _loadConcepts makes the Concept of subject A.
LangLoad ==
    /\ ~concept.made
    /\ \E c \in LoadedConcept(graph, "A", lang_arg) :
          concept' = [made |-> TRUE, prefLabel |-> c.prefLabel,
                      definition |-> c.definition, altLabel |-> c.altLabel]
    /\ UNCHANGED <<objVars, relOp, inserted, collVars, loadVars, buildVars, tripVars,
                   lang_arg>>

InitLang ==
    /\ InitObj
    /\ relOp = NoOp
    /\ inserted = EmptyOrder
    /\ InitCollIdle
    /\ graph \in LangGraphs
    /\ graph0 = graph
    /\ max_depth = [finite |-> TRUE, value |-> 0]
    /\ lpc = "idle"
    /\ rstack = << >>
    /\ resolved = {}
    /\ fetched = << >>
    /\ everUnresolved = {}
    /\ rsteps = 0
    /\ err = "none"
    /\ loader = NoLoader
    /\ InitBuildIdle
    /\ InitTripIdle
    /\ lang_arg \in LangFilters
    /\ concept = NoConcept

NextLang == LangLoad

SpecLang == InitLang /\ [][NextLang]_vars

\* The eligibility the specification gives: with a language tag as filter the
\* literals tagged with exactly it, with the empty string the untagged ones,
\* without a filter all.
Eligible(filter, literal) ==
    IF filter = "None" THEN TRUE
    ELSE IF filter = "" THEN literal.lang = "None"
    ELSE literal.lang = filter

EligibleTexts(g, p, filter) ==
    {Str(o.lex) : o \in {x \in objects(g, "A", p) : Eligible(filter, x)}}

\* C12: the preferred label, the definition and the alternate label of the
\* Concept made are each the text of an eligible literal of their predicate
\* when there is one (for the label: of skos:prefLabel, else of rdfs:label),
\* and their default ("" for the label, None for the others) when none is.
C12_UniformEligibility ==
    concept.made =>
        /\ concept.prefLabel \in
              (IF EligibleTexts(graph, "prefLabel", lang_arg) # {}
               THEN EligibleTexts(graph, "prefLabel", lang_arg)
               ELSE IF EligibleTexts(graph, "label", lang_arg) # {}
               THEN EligibleTexts(graph, "label", lang_arg)
               ELSE {Str("")})
        /\ \A p \in {"definition", "altLabel"} :
              concept[p] \in
                 (IF EligibleTexts(graph, p, lang_arg) # {}
                  THEN EligibleTexts(graph, p, lang_arg)
                  ELSE {PyNone})

\* What holds of the code: the label follows the eligibility of the
\* specification, under every filter.
LabelEligibility ==
    concept.made =>
        concept.prefLabel \in
              (IF EligibleTexts(graph, "prefLabel", lang_arg) # {}
               THEN EligibleTexts(graph, "prefLabel", lang_arg)
               ELSE IF EligibleTexts(graph, "label", lang_arg) # {}
               THEN EligibleTexts(graph, "label", lang_arg)
               ELSE {Str("")})

(***************************************************************************)
(* Claims about discard, delete and pop on a merged view                   *)
(***************************************************************************)

\* The step is operation op on a.<n> with argument b.
IsRelOp(op, n, a, b) ==
    /\ relOp'.op = op
    /\ relOp'.name = n
    /\ relOp'.a = a
    /\ relOp'.b = b

\* C13: a.<n>.discard(b) can always be made, and it leaves b in neither store
\* of the view, wherever b was before, and every other entry of the two
\* stores as it was.
C13_DiscardRemovesBothSides ==
    /\ [](\A n \in JoinNames : \A a, b \in ConceptURIs : ENABLED RelDiscard(n, a, b))
    /\ [][\A n \in JoinNames : \A a, b \in ConceptURIs :
            IsRelOp("discard", n, a, b) =>
                /\ relOp'.result = "ok"
                /\ left'[n][a] = left[n][a] \ {b}
                /\ right'[n][a] = right[n][a] \ {b}
                /\ ~(b \in left'[n][a] \/ b \in right'[n][a])]_vars

\* U was in both stores of A.related and has been discarded: it is in
\* neither, and through the backrefs A has left both stores of U.related.
C13_Witness ==
    /\ relOp.op = "discard"
    /\ relOp.name = "related"
    /\ relOp.a = "A"
    /\ relOp.b = "U"
    /\ relOp.was = "both"
    /\ ~AttributeJoin_contains("related", "A", "U")
    /\ ~AttributeJoin_contains("related", "U", "A")

\* C14: del a.<n>[b] with b in at least one store of the view succeeds and
\* leaves b in neither, the other entries as they were; with b in neither it
\* raises KeyError and changes no store.
C14_DeleteFailsOnlyWhenAbsent ==
    [][\A n \in JoinNames : \A a, b \in ConceptURIs :
         IsRelOp("delete", n, a, b) =>
            IF b \in left[n][a] \/ b \in right[n][a]
            THEN /\ relOp'.result = "ok"
                 /\ left'[n][a] = left[n][a] \ {b}
                 /\ right'[n][a] = right[n][a] \ {b}
            ELSE /\ relOp'.result = "KeyError"
                 /\ left' = left
                 /\ right' = right]_vars

\* U was only in the left store of A.synonyms and has been deleted without
\* error; the entry A of the view is still there.
C14_Witness ==
    /\ relOp.op = "delete"
    /\ relOp.name = "synonyms"
    /\ relOp.a = "A"
    /\ relOp.b = "U"
    /\ relOp.was = "left"
    /\ relOp.result = "ok"
    /\ ~AttributeJoin_contains("synonyms", "A", "U")
    /\ AttributeJoin_contains("synonyms", "A", "A")

\* C15: a.<n>.pop() on a view that is not empty returns one of its members
\* and leaves that member in neither store of the view.
C15_PopRemovesMember ==
    (relOp.op = "pop" /\ relOp.name \in JoinNames /\ relOp.was = "nonempty") =>
        /\ relOp.result = "ok"
        /\ relOp.value \in ConceptURIs
        /\ ~AttributeJoin_contains(relOp.name, relOp.a, relOp.value)

(***************************************************************************)
(* Claims about what the resolver collects                                 *)
(***************************************************************************)

\* The objects of the statements of graph g with a predicate of preds that
\* the first scan of a resolution of g does not find resolved already.
OpenObjects(g, preds) ==
    {normalise_uri(t[3]) : t \in {x \in g : x[2] \in preds}} \ AddExisting(g, {})

WasFetched(u) == \E i \in 1..Len(fetched) : fetched[i].uri = u

\* C16: a resolution with max_depth above 0 that has ended without an
\* exception has collected as unresolved, and fetched, the object of every
\* statement of the graph handed in whose predicate is broader, narrower,
\* related, exactMatch, sameAs, member or hasTopConcept, unless the graph
\* types it.
C16_CollectsEveryRelation ==
    (lpc = "load" /\ ~DepthReached(0)) =>
        \A u \in OpenObjects(graph0, Predicates) :
            u \in everUnresolved /\ WasFetched(u)

\* What holds of the code: the same for the predicates other than
\* hasTopConcept.
CollectsResolvablePredicates ==
    (lpc = "load" /\ ~DepthReached(0)) =>
        \A u \in OpenObjects(graph0, Predicates \ {"hasTopConcept"}) :
            u \in everUnresolved /\ WasFetched(u)

(***************************************************************************)
(* Claims about the typed getters                                          *)
(***************************************************************************)

\* RDFLoader.getConceptSchemes(flat), as the map from each key to the kind of
\* the object under it.
getConceptSchemes(flat) ==
    [key \in getAttr("_schemes", flat) |-> getAttr("_cache", flat)[key]]

\* RDFLoader.getCollections(flat), likewise.
getCollections(flat) ==
    [key \in getAttr("_collections", flat) |-> getAttr("_cache", flat)[key]]

\* C17: after a load every object of getConcepts() is a Concept, every object
\* of getCollections() a Collection and every object of getConceptSchemes() a
\* ConceptScheme, with flat and without.
C17_GettersAreTyped ==
    lpc = "done" =>
        \A flat \in BOOLEAN :
            /\ \A key \in DOMAIN getConcepts(flat) : getConcepts(flat)[key] = "Concept"
            /\ \A key \in DOMAIN getCollections(flat) :
                  getCollections(flat)[key] = "Collection"
            /\ \A key \in DOMAIN getConceptSchemes(flat) :
                  getConceptSchemes(flat)[key] = "ConceptScheme"

\* What holds of the code: the getters are typed when no uri of the graph has
\* type statements of two kinds.
GettersTypedWhenSingleTyped ==
    (/\ lpc = "done"
     /\ \A u \in GraphURIs :
           Cardinality({k \in Kinds : <<u, "type", k>> \in graph}) <= 1)
        => C17_GettersAreTyped

(***************************************************************************)
(* Claims about the kinds of objects build accepts                         *)
(***************************************************************************)

\* C18: build never raises, whatever the kind of the objects handed in, and
\* when it has returned, the title and the description of every ConceptScheme
\* handed in with a graph that did not hold it yet are in the graph.
C18_BuildAcceptsEveryKind ==
    /\ bpc # "raised"
    /\ bpc = "done" =>
          \A i \in DOMAIN roots0 :
              (roots0[i].kind = "ConceptScheme" /\ TypeTriple(roots0[i]) \notin pre)
                  => ScalarTriples(roots0[i]) \subseteq bgraph

\* What holds of the code: a build of Concepts and Collections only never
\* raises.
BuildOfConceptsAndCollections ==
    (\A i \in DOMAIN roots0 : roots0[i] \in Objects) => bpc # "raised"

====
